---- MODULE Spec2Model ----
(***************************************************************************)
(* Model of packer.Run (src/packer/run.go): the decode pipeline            *)
(* (readAssetStream / decode), the multi-atlas pack loop and the           *)
(* asynchronous write tasks that report on errc.                           *)
(***************************************************************************)
EXTENDS Integers, Sequences, FiniteSets, TLC

\* ------------------------------------------------------------------ bounds
\* Number of assets the asset source can hold.
MaxAssets == 2
\* Cap on the number of pack passes explored (the loop itself has no cap
\* when MaxAtlases = 0).
MaxPasses == 2
\* Largest value of Params.MaxAtlases explored.
MaxMaxAtlases == 2
\* Length of the longest sprite list given to the pack loop on its own.
MaxSprites == 3

\* ------------------------------------------------------- program constants
DefaultAtlasName == "atlas"
DefaultAtlasWidth == 2048
DefaultAtlasHeight == 2048
numDecoders == 5

\* fmt.Sprintf("%s-%d", name, index); index 0 is never produced by it.
DefaultNameFormatter(name, index) == [name |-> name, index |-> index]
\* A bare name used as a stem (descName = params.Name).
BareName(name) == [name |-> name, index |-> 0]
\* fmt.Sprintf("%s.%s", stem, ext)
FileName(stem, ext) == [stem |-> stem, ext |-> ext]

\* ------------------------------------------------------------- the inputs
Assets == 1..MaxAssets

\* Pixel size of the image behind each asset (image.DecodeConfig).
\* Assets 1 and 2 have equal area and different shapes.
CfgWidth(a) == CASE a = 1 -> 2 [] a = 2 -> 1 [] a = 3 -> 2 [] OTHER -> 1
CfgHeight(a) == CASE a = 1 -> 1 [] a = 2 -> 2 [] a = 3 -> 2 [] OTHER -> 1

\* Scales are rationals n/d with d > 0; [n |-> 0] is the unset value.
ScaleUnset == [n |-> 0, d |-> 1]
ScaleOne == [n |-> 1, d |-> 1]
ScaleHalf == [n |-> 1, d |-> 2]
ScaleNegative == [n |-> -1, d |-> 1]

\* Go's int(float64) conversion: truncation toward zero.
TruncDiv(n, d) == IF n >= 0 THEN n \div d ELSE -((-n) \div d)
\* int(float64(v) * scale)
ScaleInt(v, scale) == TruncDiv(v * scale.n, scale.d)

NoErr == "nil"
Running == "running"

VARIABLES
  args,             \* the arguments of Run: is ctx nil, is params nil
  params,           \* *Params as Run sees it
  callerCancelled,  \* the caller's context has been cancelled
  pc,               \* Run's position
  result,           \* Run's return value, Running until it returns
  \* readAssetStream
  pending,          \* assets the stream has not yielded yet
  yielded,          \* assets the stream has yielded
  streamErr,        \* the stream's terminal error; "open" while it produces
  decWaiting,       \* decoders blocked in `range in`
  decPublishing,    \* results held by decoders inside publishResult
  decDone,          \* decoders that have returned
  outClosed,        \* close(out) has happened
  readSprites,      \* readAssetStream's local `sprites`
  readReturned,     \* readAssetStream has returned (its cancelCtx ran)
  \* the pack loop
  packMode,         \* how packing.BinPacker.Pack answers: "any" or "bin"
  spritesArr,       \* backing array of the slice readAssetStream returned
  sprites,          \* the slice header `sprites`: which array, what length
  compBuf, compLen, \* completedSprites: backing array and length
  incBuf, incLen,   \* incompleteSprites: backing array and length
  idx,              \* index of the range loop over sprites (1-based)
  totalNumberOfSprites,
  totalNumberOfAtlases,
  free,             \* the BinPacker's free regions
  place,            \* the x, y that Pack has assigned to each sprite
  atlases,          \* every *atlas created, in creation order
  \* the write tasks
  tasks,            \* one per atlas: the goroutines of lines 191 and 200
  descTask,         \* the goroutine of line 224
  wg,               \* the WaitGroup counter
  closerStarted,    \* the goroutine of line 237 exists
  errcClosed,       \* close(errc) has happened
  files,            \* names the Outputter has been given
  descCalls,        \* the calls of atlas.OutputDesc, in order
  lateWrite,        \* a write call began when ctx was already done
  \* history
  passNo,           \* pack passes begun
  packCalls,        \* calls of Pack made
  lastOutcome,      \* what the latest call of Pack returned
  fedSprites,       \* history: the list the current pass was given
  deferredSprites   \* history: the sprites of that list Pack had no room for

decodeVars == <<pending, yielded, streamErr, decWaiting, decPublishing, decDone,
                outClosed, readSprites, readReturned>>
packVars == <<packMode, spritesArr, sprites, compBuf, compLen, incBuf, incLen,
              idx, totalNumberOfSprites, totalNumberOfAtlases, free, place,
              atlases, passNo, packCalls, lastOutcome, fedSprites,
              deferredSprites>>
taskVars == <<tasks, descTask, wg, closerStarted, errcClosed, files, descCalls,
              lateWrite>>
vars == <<args, params, callerCancelled, pc, result, decodeVars, packVars, taskVars>>

\* A ctx that only the caller cancels: no deferred cancelCtx.
CtxDoneByCallerOnly == callerCancelled

\* Run's ctx (context.WithCancel of the caller's, cancelled by the deferred
\* cancelCtx when Run returns).
CtxDone == callerCancelled \/ result # Running

\* A pipeline context that only the caller cancels.
ReadCtxDoneByCallerOnly == callerCancelled

\* readAssetStream's ctx, a child of Run's.
ReadCtxDone == CtxDone \/ readReturned

\* ------------------------------------------------------------------- Params
\* target.Format: a file extension and a template.
FormatLove == [Ext |-> "lua", Template |-> "love"]
\* The zero value of target.Format.
ZeroFormat == [Ext |-> "", Template |-> ""]
\* target.Format.IsValid: a non-empty extension and a template.
IsValid(f) == f.Ext # "" /\ f.Template # ""

ErrNilContext == "Context must not be nil"
ErrNilParams == "Params must not be nil"
ErrInvalidFormat == "Invalid 'Format' parameter"
ErrNilInput == "Input must not be nil"
ErrNilOutput == "Output must not be nil"
ConfigErrors == {ErrNilContext, ErrNilParams, ErrInvalidFormat, ErrNilInput,
                 ErrNilOutput}

\* A validation that forgets the Output.
validateInputOnly(p) ==
  IF p.Input = "nil" THEN ErrNilInput ELSE NoErr

\* lines 69-77
validateRequiredParameters(p) ==
  IF p.Input = "nil" THEN ErrNilInput
  ELSE IF p.Output = "nil" THEN ErrNilOutput
  ELSE NoErr

\* lines 115-131: the checks Run makes before any work, in their order.
ConfigError(c, p) ==
  IF c.ctx = "nil" THEN ErrNilContext
  ELSE IF c.params = "nil" THEN ErrNilParams
  ELSE IF ~IsValid(p.Format) THEN ErrInvalidFormat
  ELSE validateRequiredParameters(p)

applySensibleDefaults(p) ==
  [p EXCEPT !.Name = IF p.Name = "" THEN DefaultAtlasName ELSE p.Name,
            !.Width = IF p.Width = 0 THEN DefaultAtlasWidth ELSE p.Width,
            !.Height = IF p.Height = 0 THEN DefaultAtlasHeight ELSE p.Height,
            !.Scale = IF p.Scale.n = 0 THEN ScaleOne ELSE p.Scale]

\* The Params Run is called with when Pack's answers are left open: the
\* canvas and the padding do not matter then.
ParamChoices ==
  [Name : {""},
   Width : {0},
   Height : {0},
   Padding : {0},
   MaxAtlases : 0..MaxMaxAtlases,
   Scale : {ScaleUnset},
   CombineDescFiles : BOOLEAN,
   Format : {FormatLove, ZeroFormat},
   Input : {"nil", "stream"},
   Output : {"nil", "recorder"}]

\* Run may be called with a nil context and with nil Params.
CallChoices == [ctx : {"nil", "ok"}, params : {"nil", "ok"}]

NilSprite == [Asset |-> 0, w |-> 0, h |-> 0, padding |-> 0]
Origin == [x |-> 0, y |-> 0]

InitPack ==
  /\ spritesArr = <<>>
  /\ sprites = [buf |-> "orig", len |-> 0]
  /\ compBuf = <<>> /\ compLen = 0
  /\ incBuf = <<>> /\ incLen = 0
  /\ idx = 0
  /\ totalNumberOfSprites = 0
  /\ totalNumberOfAtlases = 0
  /\ free = <<>>
  /\ place = [a \in Assets |-> Origin]
  /\ atlases = <<>>
  /\ passNo = 0
  /\ packCalls = 0
  /\ lastOutcome = "none"
  /\ fedSprites = <<>>
  /\ deferredSprites = <<>>

InitTasks ==
  /\ tasks = <<>>
  /\ descTask = [st |-> "none", i |-> 0, err |-> "none"]
  /\ wg = 0
  /\ closerStarted = FALSE
  /\ errcClosed = FALSE
  /\ files = {}
  /\ descCalls = <<>>
  /\ lateWrite = FALSE

InitDecode ==
  /\ pending \in {1..n : n \in 0..MaxAssets}
  /\ yielded = {}
  /\ streamErr = "open"
  /\ decWaiting = 0
  /\ decPublishing = {}
  /\ decDone = 0
  /\ outClosed = FALSE
  /\ readSprites = <<>>
  /\ readReturned = FALSE

InitWith(choices, calls, mode) ==
  /\ args \in calls
  /\ params \in choices
  /\ packMode = mode
  /\ callerCancelled = FALSE
  /\ pc = "start"
  /\ result = Running
  /\ InitDecode
  /\ InitPack
  /\ InitTasks

Init == InitWith(ParamChoices, CallChoices, "any")

\* The Params Run is called with when the packer is the bin packer.
\* The canvas is unset (the defaults apply), 2 x 2 or 1 x 2.
BinParamChoices ==
  {p \in [Name : {"", "myatlas"},
          Width : {0, 1, 2},
          Height : {0, 2},
          Padding : {0, 1},
          MaxAtlases : 0..MaxMaxAtlases,
          Scale : {ScaleUnset, ScaleHalf, ScaleNegative},
          CombineDescFiles : BOOLEAN,
          Format : {FormatLove, ZeroFormat},
          Input : {"stream"},
          Output : {"recorder"}] :
     <<p.Width, p.Height>> \in {<<0, 0>>, <<2, 2>>, <<1, 2>>}}

InitBin == InitWith(BinParamChoices, {[ctx |-> "ok", params |-> "ok"]}, "bin")

\* Run, lines 114-135: checks, defaults, then readAssetStream starts the
\* stream and its five decoders.
RunBegin ==
  /\ pc = "start"
  /\ IF ConfigError(args, params) # NoErr
     THEN /\ result' = ConfigError(args, params)
          /\ pc' = "done"
          /\ UNCHANGED <<params, decWaiting>>
     ELSE /\ params' = applySensibleDefaults(params)
          /\ pc' = "read"
          /\ decWaiting' = numDecoders
          /\ UNCHANGED result
  /\ UNCHANGED <<args, callerCancelled, pending, yielded, streamErr,
                 decPublishing, decDone, outClosed, readSprites, readReturned,
                 packVars, taskVars>>

\* The caller cancels the context it passed to Run.
CallerCancel ==
  /\ args.ctx # "nil"
  /\ result = Running
  /\ ~callerCancelled
  /\ callerCancelled' = TRUE
  /\ UNCHANGED <<args, params, pc, result, decodeVars, packVars, taskVars>>

\* decode, lines 304-327: what one decoder makes of an asset. `outcome` is
\* what asset.Reader() and image.DecodeConfig do.
DecodeResult(a, outcome, padding, scale) ==
  IF outcome = "ok"
  THEN [Err |-> NoErr,
        Sprite |-> [Asset |-> a,
                    w |-> ScaleInt(CfgWidth(a), scale),
                    h |-> ScaleInt(CfgHeight(a), scale),
                    padding |-> padding]]
  ELSE [Err |-> outcome, Sprite |-> [Asset |-> a, w |-> 0, h |-> 0, padding |-> 0]]

DecodeOutcomes == {"ok", "openFailed", "metadataFailed"}

\* The stream hands its next asset to a decoder blocked in `range in`; the
\* decoder opens it, reads its metadata and enters publishResult.
DecodeAsset(a, outcome) ==
  /\ pc = "read"
  /\ streamErr = "open"
  /\ a \in pending
  /\ decWaiting > 0
  /\ pending' = pending \ {a}
  /\ yielded' = yielded \cup {a}
  /\ decWaiting' = decWaiting - 1
  /\ decPublishing' = decPublishing \cup
                        {DecodeResult(a, outcome, params.Padding, params.Scale)}
  /\ UNCHANGED <<args, params, callerCancelled, pc, result, streamErr, decDone,
                 outClosed, readSprites, readReturned, packVars, taskVars>>

\* The asset source ends: with nil after its last asset, with an error when
\* it fails, and with an error when it stops on cancellation.
StreamEnd(err) ==
  /\ pc \in {"read", "done"}
  /\ streamErr = "open"
  /\ decWaiting + Cardinality(decPublishing) + decDone = numDecoders
  /\ \/ err = NoErr /\ pending = {}
     \/ err = "streamFailed"
     \/ err = "streamCancelled" /\ ReadCtxDone
  /\ streamErr' = err
  /\ UNCHANGED <<args, params, callerCancelled, pc, result, pending, yielded,
                 decWaiting, decPublishing, decDone, outClosed, readSprites,
                 readReturned, packVars, taskVars>>

\* publishResult, `case out <- res`: the drain loop of readAssetStream
\* (lines 279-284) receives it.
PublishResult(res) ==
  /\ pc = "read"
  /\ res \in decPublishing
  /\ decPublishing' = decPublishing \ {res}
  /\ decWaiting' = decWaiting + 1
  /\ IF res.Err # NoErr
     THEN /\ readReturned' = TRUE
          /\ result' = res.Err
          /\ pc' = "done"
          /\ UNCHANGED readSprites
     ELSE /\ readSprites' = Append(readSprites, res.Sprite)
          /\ UNCHANGED <<readReturned, result, pc>>
  /\ UNCHANGED <<args, params, callerCancelled, pending, yielded, streamErr, decDone,
                 outClosed, packVars, taskVars>>

\* publishResult, `case <-ctx.Done()`: the result is dropped.
PublishCancelled(res) ==
  /\ ReadCtxDone
  /\ res \in decPublishing
  /\ decPublishing' = decPublishing \ {res}
  /\ decWaiting' = decWaiting + 1
  /\ UNCHANGED <<args, params, callerCancelled, pc, result, pending, yielded,
                 streamErr, decDone, outClosed, readSprites, readReturned, packVars, taskVars>>

\* `range in` ends for one decoder once the stream has closed its channel.
DecoderReturn ==
  /\ streamErr # "open"
  /\ decWaiting > 0
  /\ decWaiting' = decWaiting - 1
  /\ decDone' = decDone + 1
  /\ UNCHANGED <<args, params, callerCancelled, pc, result, pending, yielded,
                 streamErr, decPublishing, outClosed, readSprites, readReturned, packVars, taskVars>>

\* lines 273-276: wg.Wait(); close(out)
CloseOut ==
  /\ decDone = numDecoders
  /\ ~outClosed
  /\ outClosed' = TRUE
  /\ UNCHANGED <<args, params, callerCancelled, pc, result, pending, yielded,
                 streamErr, decWaiting, decPublishing, decDone, readSprites,
                 readReturned, packVars, taskVars>>

\* ------------------------------------------------------------- the packer
ErrInputTooLarge == "ErrInputTooLarge"
ErrOutOfRoom == "ErrOutOfRoom"
ErrMaxAtlases == "Maximum number of atlases exceeded"

\* The padded bounding box a sprite reserves.
BoxW(s) == s.w + s.padding
BoxH(s) == s.h + s.padding
\* packing.ByArea: descending bounding-box area.
Area(s) == BoxW(s) * BoxH(s)
AreaLess(s, t) == Area(s) > Area(t)

\* sort.Sort on a short slice is an insertion sort: each element moves left
\* while it is Less than its left neighbour.
RECURSIVE InsertByArea(_, _)
InsertByArea(sorted, s) ==
  IF sorted = <<>> \/ ~AreaLess(s, sorted[Len(sorted)])
  THEN Append(sorted, s)
  ELSE Append(InsertByArea(SubSeq(sorted, 1, Len(sorted) - 1), s),
              sorted[Len(sorted)])

RECURSIVE SortFrom(_, _, _)
SortFrom(list, k, acc) ==
  IF k > Len(list) THEN acc ELSE SortFrom(list, k + 1, InsertByArea(acc, list[k]))

\* sort.Sort(packing.ByArea(sprites))
SortByArea(list) == SortFrom(list, 1, <<>>)

\* packing.NewBinPacker(width, height): one free region, the whole canvas.
NewBinPacker(width, height) == <<[x |-> 0, y |-> 0, w |-> width, h |-> height]>>

Fits(region, s) == region.w >= BoxW(s) /\ region.h >= BoxH(s)
RegionArea(region) == region.w * region.h

\* The smallest free region that fits, the first of them on a tie; 0 if none.
BestRegion(fr, s) ==
  LET fit == {k \in 1..Len(fr) : Fits(fr[k], s)}
  IN IF fit = {} THEN 0
     ELSE CHOOSE k \in fit :
            \A m \in fit : \/ RegionArea(fr[k]) < RegionArea(fr[m])
                           \/ RegionArea(fr[k]) = RegionArea(fr[m]) /\ k <= m

\* What Pack answers on a packer with free regions fr.
BinOutcome(fr, s, width, height) ==
  IF s.w > width \/ s.h > height THEN ErrInputTooLarge
  ELSE IF BestRegion(fr, s) = 0 THEN ErrOutOfRoom
  ELSE NoErr

RemoveAt(seq, k) == SubSeq(seq, 1, k - 1) \o SubSeq(seq, k + 1, Len(seq))
KeepNonEmpty(seq) == SelectSeq(seq, LAMBDA r : r.w > 0 /\ r.h > 0)

\* The free regions after placing s in its best region: the region is split
\* into the part right of the sprite and the part below it.
BinSplit(fr, s) ==
  LET k == BestRegion(fr, s)
      r == fr[k]
      right == [x |-> r.x + BoxW(s), y |-> r.y, w |-> r.w - BoxW(s), h |-> BoxH(s)]
      below == [x |-> r.x, y |-> r.y + BoxH(s), w |-> r.w, h |-> r.h - BoxH(s)]
  IN RemoveAt(fr, k) \o KeepNonEmpty(<<right, below>>)

BinOrigin(fr, s) == [x |-> fr[BestRegion(fr, s)].x, y |-> fr[BestRegion(fr, s)].y]

\* The answers packer.Pack(sprite) can give.
PackOutcomes(s) ==
  IF packMode = "any" THEN {NoErr, ErrOutOfRoom, ErrInputTooLarge}
  ELSE {BinOutcome(free, s, params.Width, params.Height)}

\* ----------------------------------------------------------- the pack loop
\* A loop that keeps reading the slice readAssetStream returned.
SpriteAtOriginal(k) == spritesArr[k]

\* A loop whose next pass ranges over completedSprites.
SpriteAtCompleted(k) == IF sprites.buf = "orig" THEN spritesArr[k] ELSE compBuf[k]

\* sprites[k] of the range loop: the element is read from the backing array
\* when the loop reaches it.
SpriteAt(k) == IF sprites.buf = "orig" THEN spritesArr[k] ELSE incBuf[k]

\* make([]packing.Block, 0, n)
MakeSlice(n) == [k \in 1..n |-> NilSprite]

\* readAssetStream lines 285-290 and Run lines 135-148: the drain loop ends
\* on the closed channel, the stream's error is read, the sprites are sorted.
ReadFinish ==
  /\ pc = "read"
  /\ outClosed
  /\ readReturned' = TRUE
  /\ IF streamErr # NoErr
     THEN /\ result' = streamErr
          /\ pc' = "done"
          /\ UNCHANGED <<spritesArr, sprites, compBuf, incBuf,
                         totalNumberOfSprites>>
     ELSE /\ spritesArr' = SortByArea(readSprites)
          /\ sprites' = [buf |-> "orig", len |-> Len(readSprites)]
          /\ totalNumberOfSprites' = Len(readSprites)
          /\ compBuf' = MakeSlice(Len(readSprites))
          /\ incBuf' = MakeSlice(Len(readSprites))
          /\ pc' = "loop"
          /\ UNCHANGED result
  /\ readSprites' = <<>>
  /\ UNCHANGED <<args, params, callerCancelled, pending, yielded, streamErr,
                 decWaiting, decPublishing, decDone, outClosed,
                 packMode, compLen, incLen, idx, totalNumberOfAtlases, free,
                 place, atlases, passNo, packCalls, lastOutcome, fedSprites,
                 deferredSprites, taskVars>>

\* The limit tested one atlas too late.
MaxAtlasesReachedLate(p, n) == p.MaxAtlases > 0 /\ n > p.MaxAtlases

\* line 151
MaxAtlasesReached(p, n) == p.MaxAtlases > 0 /\ n = p.MaxAtlases

\* lines 150-158: the top of the loop.
BeginPass ==
  /\ pc = "loop"
  /\ IF MaxAtlasesReached(params, totalNumberOfAtlases)
     THEN /\ result' = ErrMaxAtlases
          /\ pc' = "done"
          /\ UNCHANGED <<compLen, incLen, free, idx, passNo, fedSprites,
                         deferredSprites>>
     ELSE /\ passNo < MaxPasses
          /\ fedSprites' = [k \in 1..sprites.len |-> SpriteAt(k)]
          /\ deferredSprites' = <<>>
          /\ compLen' = 0
          /\ incLen' = 0
          /\ free' = NewBinPacker(params.Width, params.Height)
          /\ idx' = 1
          /\ passNo' = passNo + 1
          /\ pc' = "packing"
          /\ UNCHANGED result
  /\ UNCHANGED <<args, params, callerCancelled, decodeVars, packMode, spritesArr,
                 sprites, compBuf, incBuf, totalNumberOfSprites,
                 totalNumberOfAtlases, place, atlases, packCalls, lastOutcome,
                 taskVars>>

\* A switch that takes ErrOutOfRoom for a placement.
SwitchDefersNothing(outcome) ==
  CASE outcome = ErrInputTooLarge -> "return"
    [] OTHER -> "completed"

\* A switch that takes ErrInputTooLarge for a placement.
SwitchTooLargeAsPlaced(outcome) ==
  CASE outcome = ErrOutOfRoom -> "incomplete"
    [] OTHER -> "completed"

\* A switch without the ErrInputTooLarge case.
SwitchWithoutTooLarge(outcome) ==
  CASE outcome = NoErr -> "completed"
    [] OTHER -> "incomplete"

\* lines 160-167: the switch on Pack's answer.
SwitchOnPack(outcome) ==
  CASE outcome = ErrInputTooLarge -> "return"
    [] outcome = ErrOutOfRoom -> "incomplete"
    [] OTHER -> "completed"

\* lines 159-168: one iteration of the range loop.
PackSprite(outcome) ==
  /\ pc = "packing"
  /\ idx <= sprites.len
  /\ outcome \in PackOutcomes(SpriteAt(idx))
  /\ packCalls' = packCalls + 1
  /\ lastOutcome' = outcome
  /\ deferredSprites' = IF outcome = ErrOutOfRoom
                        THEN Append(deferredSprites, fedSprites[idx])
                        ELSE deferredSprites
  /\ LET s == SpriteAt(idx) IN
     /\ IF outcome = NoErr /\ packMode = "bin"
        THEN /\ free' = BinSplit(free, s)
             /\ place' = [place EXCEPT ![s.Asset] = BinOrigin(free, s)]
        ELSE UNCHANGED <<free, place>>
     /\ CASE SwitchOnPack(outcome) = "return" ->
               /\ result' = outcome
               /\ pc' = "done"
               /\ UNCHANGED <<compBuf, compLen, incBuf, incLen, idx>>
          [] SwitchOnPack(outcome) = "incomplete" ->
               /\ incBuf' = [incBuf EXCEPT ![incLen + 1] = s]
               /\ incLen' = incLen + 1
               /\ idx' = idx + 1
               /\ UNCHANGED <<result, pc, compBuf, compLen>>
          [] OTHER ->
               /\ compBuf' = [compBuf EXCEPT ![compLen + 1] = s]
               /\ compLen' = compLen + 1
               /\ idx' = idx + 1
               /\ UNCHANGED <<result, pc, incBuf, incLen>>
  /\ UNCHANGED <<args, params, callerCancelled, decodeVars, packMode, spritesArr,
                 sprites, totalNumberOfSprites, totalNumberOfAtlases, atlases,
                 passNo, fedSprites, taskVars>>

\* lines 171-186: the atlas of this pass.
NewAtlas(p, n, completed) ==
  [Index |-> n,
   Name |-> DefaultNameFormatter(p.Name, n),
   Sprites |-> completed,
   DescFilename |->
     FileName(IF p.CombineDescFiles THEN BareName(p.Name)
              ELSE DefaultNameFormatter(p.Name, n), p.Format.Ext),
   ImageFilename |-> FileName(DefaultNameFormatter(p.Name, n), "png"),
   Width |-> p.Width,
   Height |-> p.Height,
   Scale |-> p.Scale]

\* lines 188-207: the write task of one atlas.
NewTask(p, n) ==
  [atlas |-> n,
   call |-> IF p.CombineDescFiles THEN "OutputImage" ELSE "Output",
   st |-> "ready", err |-> "none"]

\* line 215
NoProgress(incompleted, total, fed) == incompleted = total

\* lines 170-219: the pass is over; its atlas is created and dispatched and
\* the loop decides how to go on.
EndPass ==
  /\ pc = "packing"
  /\ idx > sprites.len
  /\ totalNumberOfAtlases' = totalNumberOfAtlases + 1
  /\ atlases' = Append(atlases,
                       NewAtlas(params, totalNumberOfAtlases + 1,
                                SubSeq(compBuf, 1, compLen)))
  /\ tasks' = Append(tasks, NewTask(params, totalNumberOfAtlases + 1))
  /\ wg' = wg + 1
  /\ IF incLen = 0
     THEN pc' = "after" /\ UNCHANGED <<result, sprites>>
     ELSE IF NoProgress(incLen, totalNumberOfSprites, sprites.len)
     THEN pc' = "done" /\ result' = ErrOutOfRoom /\ UNCHANGED sprites
     ELSE /\ sprites' = [buf |-> "inc", len |-> incLen]
          /\ pc' = "loop"
          /\ UNCHANGED result
  /\ UNCHANGED <<args, params, callerCancelled, decodeVars, packMode, spritesArr,
                 compBuf, compLen, incBuf, incLen, idx, totalNumberOfSprites,
                 free, place, passNo, packCalls, lastOutcome, fedSprites,
                 deferredSprites,
                 descTask, closerStarted, errcClosed, files, descCalls,
                 lateWrite>>

\* ------------------------------------------------ the pack loop as a function
\* lines 159-168 on a list, with the bin packer: the completed and the
\* incomplete sprites of one pass and the places assigned.
RECURSIVE PackPass(_, _, _, _)
PackPass(p, list, k, acc) ==
  IF k > Len(list) THEN acc
  ELSE LET s == list[k]
           o == BinOutcome(acc.free, s, p.Width, p.Height)
       IN CASE SwitchOnPack(o) = "return" -> [acc EXCEPT !.err = o]
            [] SwitchOnPack(o) = "incomplete" ->
                 PackPass(p, list, k + 1, [acc EXCEPT !.inc = Append(@, s)])
            [] OTHER ->
                 PackPass(p, list, k + 1,
                          [acc EXCEPT !.comp = Append(@, s),
                                      !.free = BinSplit(acc.free, s),
                                      !.place[s.Asset] = BinOrigin(acc.free, s)])

\* lines 149-220 on a sorted list: the atlases, the places and the result
\* of the loop ("capped" when it needs more than MaxPasses passes).
RECURSIVE PackLoop(_, _, _, _, _, _)
PackLoop(p, list, total, n, made, pl) ==
  IF MaxAtlasesReached(p, n)
  THEN [result |-> ErrMaxAtlases, atlases |-> made, place |-> pl]
  ELSE IF n >= MaxPasses
  THEN [result |-> "capped", atlases |-> made, place |-> pl]
  ELSE LET r == PackPass(p, list, 1,
                         [err |-> NoErr, comp |-> <<>>, inc |-> <<>>,
                          free |-> NewBinPacker(p.Width, p.Height), place |-> pl])
           next == Append(made, NewAtlas(p, n + 1, r.comp))
       IN IF r.err # NoErr
          THEN [result |-> r.err, atlases |-> made, place |-> r.place]
          ELSE IF r.inc = <<>>
          THEN [result |-> NoErr, atlases |-> next, place |-> r.place]
          ELSE IF NoProgress(Len(r.inc), total, Len(list))
          THEN [result |-> ErrOutOfRoom, atlases |-> next, place |-> r.place]
          ELSE PackLoop(p, r.inc, total, n + 1, next, r.place)

\* The sprites of a set in the order of their assets.
RECURSIVE InAssetOrder(_)
InAssetOrder(set) ==
  IF set = {} THEN <<>>
  ELSE LET s == CHOOSE x \in set : \A y \in set : x.Asset <= y.Asset
       IN <<s>> \o InAssetOrder(set \ {s})

\* What Run makes of a list of sprites as readAssetStream returned it.
PackAll(p, list) ==
  PackLoop(p, SortByArea(list), Len(list), 0, <<>>, [a \in Assets |-> Origin])

\* ---------------------------------------------------------- the write tasks
WriteErrors == {NoErr, "writeFailed"}

\* The files a call of atlas.Output / atlas.OutputImage hands to the Outputter.
FilesOf(call, atlas) ==
  IF call = "Output" THEN {atlas.ImageFilename, atlas.DescFilename}
  ELSE {atlas.ImageFilename}

\* lines 193 and 202: the operand of the send is evaluated when the select
\* is entered, so the task first calls atlas.Output / atlas.OutputImage.
TaskWrite(t, e) ==
  /\ t \in 1..Len(tasks)
  /\ tasks[t].st = "ready"
  /\ tasks' = [tasks EXCEPT ![t] = [@ EXCEPT !.st = "select", !.err = e]]
  /\ lateWrite' = (lateWrite \/ CtxDone)
  /\ files' = IF e = NoErr THEN files \cup FilesOf(tasks[t].call, atlases[t])
              ELSE files
  /\ UNCHANGED <<args, params, callerCancelled, pc, result, decodeVars, packVars,
                 descTask, wg, closerStarted, errcClosed, descCalls>>

\* What Run does with a value received from errc (lines 242-246).
Received(e) ==
  IF e # NoErr
  THEN result' = e /\ pc' = "done"
  ELSE UNCHANGED <<result, pc>>

\* `case errc <- ...` of a task's select, received by Run's range loop;
\* wg.Done follows.
TaskSend(t) ==
  /\ pc = "drain"
  /\ t \in 1..Len(tasks)
  /\ tasks[t].st = "select"
  /\ tasks' = [tasks EXCEPT ![t] = [@ EXCEPT !.st = "done"]]
  /\ wg' = wg - 1
  /\ Received(tasks[t].err)
  /\ UNCHANGED <<args, params, callerCancelled, decodeVars, packVars, descTask,
                 closerStarted, errcClosed, files, descCalls, lateWrite>>

\* `case <-ctx.Done()` of a task's select; wg.Done follows.
TaskCancelled(t) ==
  /\ CtxDone
  /\ t \in 1..Len(tasks)
  /\ tasks[t].st = "select"
  /\ tasks' = [tasks EXCEPT ![t] = [@ EXCEPT !.st = "done"]]
  /\ wg' = wg - 1
  /\ UNCHANGED <<args, params, callerCancelled, pc, result, decodeVars, packVars,
                 descTask, closerStarted, errcClosed, files, descCalls, lateWrite>>

\* line 222: descAtlases holds every atlas when descriptors are combined.
DescAtlases == IF params.CombineDescFiles THEN atlases ELSE <<>>

\* lines 222-240: after the loop the combined-descriptor task and the
\* goroutine that closes errc are started.
AfterLoop ==
  /\ pc = "after"
  /\ IF Len(DescAtlases) > 0
     THEN /\ descTask' = [st |-> "ready", i |-> 1, err |-> "none"]
          /\ wg' = wg + 1
     ELSE UNCHANGED <<descTask, wg>>
  /\ closerStarted' = TRUE
  /\ pc' = "drain"
  /\ UNCHANGED <<args, params, callerCancelled, result, decodeVars, packVars, tasks,
                 errcClosed, files, descCalls, lateWrite>>

\* An append flag that is set for the first atlas too.
AppendFlagAlways(i) == i > 0

\* line 229: the append flag of the i-th atlas (i counted from 1 here).
AppendFlag(i) == i > 1

\* line 229: the operand atlas.OutputDesc(...) of the send is evaluated.
DescWrite(e) ==
  /\ descTask.st = "ready"
  /\ descCalls' = Append(descCalls,
                         [atlas |-> DescAtlases[descTask.i].Index,
                          file |-> DescAtlases[descTask.i].DescFilename,
                          append |-> AppendFlag(descTask.i),
                          err |-> e])
  /\ lateWrite' = (lateWrite \/ CtxDone)
  /\ descTask' = [descTask EXCEPT !.st = "select", !.err = e]
  /\ files' = IF e = NoErr
              THEN files \cup {DescAtlases[descTask.i].DescFilename}
              ELSE files
  /\ UNCHANGED <<args, params, callerCancelled, pc, result, decodeVars, packVars,
                 tasks, wg, closerStarted, errcClosed>>

\* `case errc <- ...` of the descriptor task, received by Run; the task goes
\* on to the next atlas or returns (deferred wg.Done).
DescSend ==
  /\ pc = "drain"
  /\ descTask.st = "select"
  /\ IF descTask.i < Len(DescAtlases)
     THEN /\ descTask' = [descTask EXCEPT !.st = "ready", !.i = @ + 1]
          /\ UNCHANGED wg
     ELSE /\ descTask' = [descTask EXCEPT !.st = "done"]
          /\ wg' = wg - 1
  /\ Received(descTask.err)
  /\ UNCHANGED <<args, params, callerCancelled, decodeVars, packVars, tasks,
                 closerStarted, errcClosed, files, descCalls, lateWrite>>

\* `case <-ctx.Done(): return` of the descriptor task.
DescCancelled ==
  /\ CtxDone
  /\ descTask.st = "select"
  /\ descTask' = [descTask EXCEPT !.st = "done"]
  /\ wg' = wg - 1
  /\ UNCHANGED <<args, params, callerCancelled, pc, result, decodeVars, packVars,
                 tasks, closerStarted, errcClosed, files, descCalls, lateWrite>>

\* A closer that does not wait for the tasks.
CloseErrcWithoutWait ==
  /\ closerStarted
  /\ ~errcClosed
  /\ errcClosed' = TRUE
  /\ UNCHANGED <<args, params, callerCancelled, pc, result, decodeVars, packVars,
                 tasks, descTask, wg, closerStarted, files, descCalls,
                 lateWrite>>

\* lines 237-240: wg.Wait(); close(errc)
CloseErrc ==
  /\ closerStarted
  /\ wg = 0
  /\ ~errcClosed
  /\ errcClosed' = TRUE
  /\ UNCHANGED <<args, params, callerCancelled, pc, result, decodeVars, packVars,
                 tasks, descTask, wg, closerStarted, files, descCalls,
                 lateWrite>>

\* lines 242-248: the range loop over errc ends on the closed channel.
RunFinish ==
  /\ pc = "drain"
  /\ errcClosed
  /\ result' = NoErr
  /\ pc' = "done"
  /\ UNCHANGED <<args, params, callerCancelled, decodeVars, packVars, taskVars>>

Next ==
  \/ RunBegin
  \/ CallerCancel
  \/ \E a \in Assets, o \in DecodeOutcomes : DecodeAsset(a, o)
  \/ \E e \in {NoErr, "streamFailed", "streamCancelled"} : StreamEnd(e)
  \/ \E r \in decPublishing : PublishResult(r)
  \/ \E r \in decPublishing : PublishCancelled(r)
  \/ DecoderReturn
  \/ CloseOut
  \/ ReadFinish
  \/ BeginPass
  \/ \E o \in {NoErr, ErrOutOfRoom, ErrInputTooLarge} : PackSprite(o)
  \/ EndPass
  \/ \E t \in 1..Len(tasks), e \in WriteErrors : TaskWrite(t, e)
  \/ \E t \in 1..Len(tasks) : TaskSend(t)
  \/ \E t \in 1..Len(tasks) : TaskCancelled(t)
  \/ AfterLoop
  \/ \E e \in WriteErrors : DescWrite(e)
  \/ DescSend
  \/ DescCancelled
  \/ CloseErrc
  \/ RunFinish

Spec == Init /\ [][Next]_vars

\* ------------------------------------------------- the pack loop on its own
\* The state in which Run enters the loop (line 149) with a list of n
\* sprites: readAssetStream has returned the list, it is sorted, the slices
\* are made and nothing is dispatched yet. Pack's answers are left open.
InitPackLoop ==
  /\ args = [ctx |-> "ok", params |-> "ok"]
  /\ params \in {applySensibleDefaults(p) : p \in {q \in ParamChoices :
                     ConfigError([ctx |-> "ok", params |-> "ok"], q) = NoErr}}
  /\ packMode = "any"
  /\ callerCancelled = FALSE
  /\ pc = "loop"
  /\ result = Running
  /\ \E n \in 0..MaxSprites :
       /\ pending = {}
       /\ yielded = 1..n
       /\ spritesArr =
            SortByArea([k \in 1..n |-> DecodeResult(k, "ok", 0, ScaleOne).Sprite])
       /\ sprites = [buf |-> "orig", len |-> n]
       /\ totalNumberOfSprites = n
       /\ compBuf = MakeSlice(n)
       /\ incBuf = MakeSlice(n)
  /\ streamErr = NoErr
  /\ decWaiting = 0 /\ decPublishing = {} /\ decDone = numDecoders
  /\ outClosed = TRUE
  /\ readSprites = <<>>
  /\ readReturned = TRUE
  /\ compLen = 0 /\ incLen = 0 /\ idx = 0
  /\ totalNumberOfAtlases = 0
  /\ free = <<>>
  /\ place = [a \in Assets |-> Origin]
  /\ atlases = <<>>
  /\ passNo = 0 /\ packCalls = 0 /\ lastOutcome = "none"
  /\ fedSprites = <<>> /\ deferredSprites = <<>>
  /\ InitTasks

NextPack ==
  \/ BeginPass
  \/ \E o \in {NoErr, ErrOutOfRoom, ErrInputTooLarge} : PackSprite(o)
  \/ EndPass

SpecPack == InitPackLoop /\ [][NextPack]_vars

\* Every goroutine that can take a step eventually takes one: a write call
\* returns, a select with a ready case is left, the closer closes errc and
\* Run's range loop goes on.
TaskFairness ==
  /\ WF_vars(\E t \in 1..Len(tasks), e \in WriteErrors : TaskWrite(t, e))
  /\ WF_vars(\E t \in 1..Len(tasks) : TaskSend(t))
  /\ WF_vars(\E t \in 1..Len(tasks) : TaskCancelled(t))
  /\ WF_vars(\E e \in WriteErrors : DescWrite(e))
  /\ WF_vars(DescSend)
  /\ WF_vars(DescCancelled)
  /\ WF_vars(AfterLoop)
  /\ WF_vars(CloseErrc)
  /\ WF_vars(RunFinish)

\* The decode workers, the closer of out and the drain loop of
\* readAssetStream are scheduled in the same way.
DecodeFairness ==
  /\ WF_vars(\E r \in decPublishing : PublishResult(r))
  /\ WF_vars(\E r \in decPublishing : PublishCancelled(r))
  /\ WF_vars(DecoderReturn)
  /\ WF_vars(CloseOut)
  /\ WF_vars(ReadFinish)

SpecFair == Init /\ [][Next]_vars /\ TaskFairness /\ DecodeFairness

\* Run up to the return of readAssetStream, with the decode workers that
\* may outlive it: lines 114-140 and 256-329.
NextRead ==
  \/ RunBegin
  \/ CallerCancel
  \/ \E a \in Assets, o \in DecodeOutcomes : DecodeAsset(a, o)
  \/ \E e \in {NoErr, "streamFailed", "streamCancelled"} : StreamEnd(e)
  \/ \E r \in decPublishing : PublishResult(r)
  \/ \E r \in decPublishing : PublishCancelled(r)
  \/ DecoderReturn
  \/ CloseOut
  \/ ReadFinish

SpecFairRead == Init /\ [][NextRead]_vars /\ DecodeFairness

\* The same program with packing.BinPacker answering.
SpecBin == InitBin /\ [][Next]_vars
\* ------------------------------------------------------------------ claims
ReadErrors == {"openFailed", "metadataFailed", "streamFailed", "streamCancelled"}
\* readAssetStream has returned a list (and not an error).
ListReturned == readReturned /\ result \notin ReadErrors

\* The places <<i, j>> where a sprite sits in the atlases' sprite lists.
PlacesOf(s) ==
  {ij \in UNION {{<<i, j>> : j \in 1..Len(atlases[i].Sprites)} : i \in 1..Len(atlases)} :
     atlases[ij[1]].Sprites[ij[2]] = s}
AtlasSpriteCount(n) ==
  Cardinality(UNION {{<<i, j>> : j \in 1..Len(atlases[i].Sprites)} : i \in 1..n})

\* C1: when Run returns nil, every sprite readAssetStream returned sits in
\* the sprite list of exactly one dispatched atlas, exactly once, and the
\* atlases hold nothing else; every atlas has its write task.
C1_EverySpriteInExactlyOneAtlas ==
  result = NoErr =>
    /\ \A k \in 1..Len(spritesArr) : Cardinality(PlacesOf(spritesArr[k])) = 1
    /\ AtlasSpriteCount(Len(atlases)) = Len(spritesArr)
    /\ Len(tasks) = Len(atlases)

\* C1 witness: a run of two passes that returned nil with one sprite in
\* each of its two atlases.
C1_Witness ==
  /\ result = NoErr
  /\ Len(atlases) = 2
  /\ Len(atlases[1].Sprites) = 1
  /\ Len(atlases[2].Sprites) = 1

\* C2 (as claimed): in every pass, the first and every later one, in which
\* Pack returned OutOfRoom for every sprite fed to it, Run returns
\* ErrOutOfRoom at the end of the pass.
C2_NoProgressFailsInEveryPass ==
  [][(/\ pc = "packing"
      /\ idx > sprites.len
      /\ sprites.len > 0
      /\ incLen = sprites.len
      /\ pc' # "packing") => result' = ErrOutOfRoom]_vars

\* C3: the atlas-limit error is returned only with MaxAtlases = N > 0, after
\* exactly N passes, with N atlases created and dispatched and sprites left
\* over; no pass beyond the N-th ever starts; and when the loop comes round
\* with N atlases made, the error is what Run returns.
C3_LimitState ==
  /\ result = ErrMaxAtlases =>
       /\ params.MaxAtlases > 0
       /\ totalNumberOfAtlases = params.MaxAtlases
       /\ Len(atlases) = params.MaxAtlases
       /\ Len(tasks) = params.MaxAtlases
       /\ passNo = params.MaxAtlases
       /\ sprites.len > 0
  /\ params.MaxAtlases > 0 => passNo <= params.MaxAtlases
  /\ params.MaxAtlases = 0 => result # ErrMaxAtlases
C3_LimitStep ==
  (pc = "loop" /\ params.MaxAtlases > 0 /\ Len(atlases) = params.MaxAtlases
     /\ pc' # pc) => result' = ErrMaxAtlases
C3_AtlasLimitExactlyAtTheLimit == [](C3_LimitState) /\ [][C3_LimitStep]_vars

\* C3 witness: the limit of two atlases was hit.
C3_Witness == result = ErrMaxAtlases /\ params.MaxAtlases = 2

\* C4: when Pack answers ErrInputTooLarge, Run has returned that error in
\* the same step, the pass has made no atlas and no task, and from then on
\* Pack is not called and no atlas or task is made.
C4_TooLargeState ==
  lastOutcome = ErrInputTooLarge =>
    /\ result = ErrInputTooLarge
    /\ Len(atlases) = passNo - 1
    /\ Len(tasks) = passNo - 1
C4_TooLargeStep ==
  lastOutcome = ErrInputTooLarge =>
    /\ packCalls' = packCalls
    /\ atlases' = atlases
    /\ Len(tasks') = Len(tasks)
    /\ result' = result
C4_InputTooLargeAbortsAtOnce == [](C4_TooLargeState) /\ [][C4_TooLargeStep]_vars

\* C4 witness: Pack answered ErrInputTooLarge in the second pass, for the
\* second sprite it was given in the run.
C4_Witness ==
  /\ lastOutcome = ErrInputTooLarge
  /\ passNo = 2
  /\ Len(atlases) = 1

\* Every write that was dispatched has been performed and returned nil.
AllWritesSucceeded ==
  /\ \A t \in 1..Len(tasks) : tasks[t].st = "done" /\ tasks[t].err = NoErr
  /\ params.CombineDescFiles =>
       /\ Len(descCalls) = Len(atlases)
       /\ \A k \in 1..Len(descCalls) : descCalls[k].err = NoErr

\* C5 (as claimed): Run returns nil only if every dispatched write was
\* performed and returned no error, also when the caller cancels.
C5_NoPartialSuccess == result = NoErr => AllWritesSucceeded

\* C6 (as claimed): a list returned by readAssetStream holds exactly one
\* sprite for every asset the stream yielded.
C6_ListHoldsEveryYieldedAsset ==
  ListReturned =>
    /\ {spritesArr[k].Asset : k \in 1..Len(spritesArr)} = yielded
    /\ Len(spritesArr) = Cardinality(yielded)

\* C7 (as claimed): no call of atlas.Output, atlas.OutputImage or
\* atlas.OutputDesc begins once ctx is done.
C7_NoWriteAfterCancellation == ~lateWrite

\* C8: with CombineDescFiles every atlas names the descriptor <Name>.<ext>
\* and its image <NameFormatter(Name, i)>.png; the image tasks call
\* OutputImage only; the descriptor task exists only after the pack loop
\* and the atlases never change once it exists; its calls of OutputDesc
\* go through the atlases in creation order, append false for the first
\* and true after it, once per atlas when the run ends with nil uncancelled.
C8_CombineState ==
  (params.CombineDescFiles /\ pc # "start") =>
    /\ \A i \in 1..Len(atlases) :
         /\ atlases[i].DescFilename = FileName(BareName(params.Name), params.Format.Ext)
         /\ atlases[i].ImageFilename =
              FileName(DefaultNameFormatter(params.Name, i), "png")
         /\ tasks[i].call = "OutputImage"
    /\ descTask.st # "none" => pc \in {"drain", "done"} /\ Len(atlases) = passNo
    /\ \A k \in 1..Len(descCalls) :
         /\ descCalls[k].atlas = k
         /\ k <= Len(atlases)
         /\ descCalls[k].append = (k > 1)
         /\ descCalls[k].file = atlases[k].DescFilename
    /\ descCalls = <<>> =>
         files \subseteq {atlases[i].ImageFilename : i \in 1..Len(atlases)}
    /\ (result = NoErr /\ ~callerCancelled) => Len(descCalls) = Len(atlases)
C8_CombineStep == descTask.st # "none" => atlases' = atlases /\ passNo' = passNo
C8_CombinedDescriptorOrder == [](C8_CombineState) /\ [][C8_CombineStep]_vars

\* C8 witness: two atlases, both descriptors written by the descriptor task.
C8_Witness ==
  /\ params.CombineDescFiles
  /\ Len(atlases) = 2
  /\ Len(descCalls) = 2
  /\ result = NoErr

\* C9 (as claimed): whatever order the sprites were decoded in, a run that
\* returns nil has made the atlases, with the sprite lists and the places,
\* that the same sprites make when they arrive in the order of their assets.
\* Stated for sprites of positive size, the case the packer is specified for.
C9_DecodeOrderIndependence ==
  (/\ packMode = "bin"
   /\ result = NoErr
   /\ \A k \in 1..Len(spritesArr) : spritesArr[k].w > 0 /\ spritesArr[k].h > 0) =>
    LET ref == PackAll(params, InAssetOrder({spritesArr[k] : k \in 1..Len(spritesArr)}))
    IN /\ ref.result = NoErr
       /\ atlases = ref.atlases
       /\ place = ref.place

\* C10 (as claimed): every sprite a decoder publishes has a positive width
\* and a positive height.
C10_SpritesHavePositiveSize ==
  \A r \in decPublishing : r.Err = NoErr => r.Sprite.w > 0 /\ r.Sprite.h > 0

\* ---------------------------------------------------------------- C11
\* Nothing of the pipeline has started: the asset stream has yielded nothing
\* and has not ended, no decode worker runs, no atlas exists, no write task
\* or descriptor task is registered and the output holds no file.
NoWorkStarted ==
  /\ yielded = {} /\ streamErr = "open"
  /\ decWaiting = 0 /\ decPublishing = {} /\ decDone = 0 /\ ~outClosed
  /\ readSprites = <<>> /\ ~readReturned
  /\ atlases = <<>> /\ passNo = 0 /\ packCalls = 0
  /\ tasks = <<>> /\ descTask.st = "none" /\ wg = 0 /\ ~closerStarted
  /\ files = {} /\ descCalls = <<>>

\* The configuration the claim calls an error, as the caller passed it.
BadConfig ==
  \/ args.ctx = "nil"
  \/ args.params = "nil"
  \/ ~IsValid(params.Format)
  \/ params.Input = "nil"
  \/ params.Output = "nil"

C11_ConfigState ==
  BadConfig =>
    /\ NoWorkStarted
    /\ pc \in {"start", "done"}
    /\ pc = "start" => result = Running
    /\ pc = "done" => result \in ConfigErrors

C11_ConfigStep ==
  BadConfig => UNCHANGED <<params, pending, decodeVars, packVars, taskVars>>

OnlyInputAndOutput ==
  [Name |-> "", Width |-> 0, Height |-> 0, Padding |-> 0, MaxAtlases |-> 0,
   Scale |-> ScaleUnset, CombineDescFiles |-> FALSE, Format |-> ZeroFormat,
   Input |-> "stream", Output |-> "recorder"]

\* Run was called with such Params (it may have filled in the defaults
\* since), the stream holds the single asset 1, and nothing outside Run went
\* wrong: no cancellation, no read or decode failure, no failed write.
DefaultsOnlyRun ==
  /\ args = [ctx |-> "ok", params |-> "ok"]
  /\ applySensibleDefaults(params) = applySensibleDefaults(OnlyInputAndOutput)
  /\ pending \cup yielded = {1}
  /\ ~callerCancelled
  /\ result \notin ReadErrors \cup {"writeFailed"}

\* C12 (as claimed): Run called with Params in which only Input and Output
\* are set and a single small asset succeeds without error and outputs
\* exactly two files, <DefaultAtlasName>-1.png and <DefaultAtlasName>-1.lua.
C12_DefaultsOnlyRunSucceeds ==
  (pc = "done" /\ DefaultsOnlyRun) =>
    /\ result = NoErr
    /\ files = {FileName(DefaultNameFormatter(DefaultAtlasName, 1), "png"),
                FileName(DefaultNameFormatter(DefaultAtlasName, 1), "lua")}

\* ---------------------------------------------------------------- C13
\* The image and the descriptor of atlas i, named by the default formatter.
SeparateFiles(k) ==
  UNION {{FileName(DefaultNameFormatter(params.Name, i), "png"),
          FileName(DefaultNameFormatter(params.Name, i), params.Format.Ext)} :
         i \in 1..k}

\* C13 (as claimed): a successful run without descriptor combining that
\* created k atlases has output exactly 2k files and no others, the image
\* <NameFormatter(Name, i)>.png and the descriptor
\* <NameFormatter(Name, i)>.<Format.Ext> for each i in 1..k, the atlas
\* indices being consecutive from 1.
C13_SeparateFilesOfSuccessfulRun ==
  (pc = "done" /\ result = NoErr /\ ~params.CombineDescFiles) =>
    /\ \A i \in 1..Len(atlases) : atlases[i].Index = i
    /\ files = SeparateFiles(Len(atlases))
    /\ Cardinality(files) = 2 * Len(atlases)

\* ---------------------------------------------------------------- C14
\* A pass that does not end the run hands a strictly shorter list on.
C14_ShorterStep ==
  (pc = "packing" /\ pc' = "loop") => sprites'.len < sprites.len

\* Never more atlases than max(1, number of sprites).
C14_AtlasBound ==
  pc \in {"loop", "packing", "after", "drain"} =>
    totalNumberOfAtlases <=
      IF totalNumberOfSprites > 1 THEN totalNumberOfSprites ELSE 1

\* C14 (as claimed): the pack loop terminates for every sprite list and
\* every sequence of Pack outcomes, also with MaxAtlases = 0: each pass either
\* ends the run (success or error) or hands a strictly shorter sprite list to
\* the next pass, so the number of atlases created never exceeds
\* max(1, number of sprites).
C14_PackLoopTerminates ==
  [][C14_ShorterStep]_vars /\ [](C14_AtlasBound)

\* ---------------------------------------------------------------- C15
\* Every dispatched write task, the descriptor task included, has returned
\* and called wg.Done.
WriteTasksReturned ==
  /\ \A t \in 1..Len(tasks) : tasks[t].st = "done"
  /\ descTask.st \in {"none", "done"}
  /\ wg = 0

\* C15: Run never deadlocks and leaves no write task blocked. Once Run has
\* returned, by an early error in the pack loop, by an error received from
\* errc or with nil, every dispatched write task eventually finishes and
\* calls wg.Done, given that each write call returns; the drain loop always
\* ends; and Run returns nil only after all write tasks have finished and
\* errc has been closed.
C15_NoWriteTaskLeftBlocked ==
  /\ (result # Running) ~> WriteTasksReturned
  /\ (pc = "drain") ~> (pc = "done")
  /\ []((pc = "done" /\ result = NoErr) => (WriteTasksReturned /\ errcClosed))

\* C15 witness: Run returned early from the pack loop with a task already
\* dispatched, and the task has finished.
C15_Witness ==
  /\ pc = "done"
  /\ result \in {ErrMaxAtlases, ErrOutOfRoom, ErrInputTooLarge}
  /\ Len(tasks) > 0
  /\ WriteTasksReturned

\* ---------------------------------------------------------------- C16
\* A worker holds the result of asset a in publishResult.
Publishing(a) == \E r \in decPublishing : r.Sprite.Asset = a

\* C16: a decode worker's publish never blocks forever. Once readAssetStream
\* has returned on the first error or the caller has cancelled, every worker
\* blocked in or later entering publishResult returns from it; and once the
\* asset channel is closed every worker returns, after which out is closed.
C16_PublishNeverBlocksForever ==
  /\ \A a \in Assets :
       ((readReturned \/ callerCancelled) /\ Publishing(a)) ~> ~Publishing(a)
  /\ (streamErr # "open") ~> (decDone = numDecoders /\ outClosed)

\* C16 witness: two assets were decoded, readAssetStream returned the decode
\* error of one of them without having received the other, and the worker
\* holding the other has left publishResult and returned; out is closed.
C16_Witness ==
  /\ result \in {"openFailed", "metadataFailed"}
  /\ Cardinality(yielded) = 2
  /\ readSprites = <<>>
  /\ decPublishing = {}
  /\ decDone = numDecoders
  /\ outClosed

\* ---------------------------------------------------------------- C17
\* No decode worker can send any more: all five have returned.
DecodersReturned ==
  decDone = numDecoders /\ decWaiting = 0 /\ decPublishing = {}

\* No write task can send any more: each has called wg.Done, and the
\* combined-descriptor task, which exists whenever descriptors are combined,
\* has returned too.
WritersReturned ==
  /\ WriteTasksReturned
  /\ Len(DescAtlases) > 0 => descTask.st = "done"

\* A step in which a value is sent on out or on errc.
SendOnOut == Cardinality(decPublishing') < Cardinality(decPublishing)
SendOnErrc ==
  \/ \E t \in 1..Len(tasks) : tasks[t].st = "select" /\ tasks'[t].st = "done"
  \/ descTask.st = "select" /\ descTask'.st # "select"

\* C17: no send is ever attempted on a closed channel. out is closed only
\* after all five decode workers have returned, and errc is closed only after
\* every write task, including the combined-descriptor task registered before
\* the closer starts, has called wg.Done.
C17_NoSendOnClosedChannel ==
  /\ [](outClosed => DecodersReturned)
  /\ [](errcClosed => WritersReturned)
  /\ [][(SendOnOut => ~outClosed) /\ (SendOnErrc => ~errcClosed)]_vars

\* C17 witness: both channels are closed after a run that decoded an asset
\* and wrote an atlas with a combined descriptor.
C17_Witness ==
  /\ outClosed /\ errcClosed
  /\ yielded # {}
  /\ Len(tasks) > 0
  /\ descTask.st = "done"

\* ---------------------------------------------------------------- C18
\* The sprites of the atlases dispatched so far.
DispatchedSprites ==
  UNION {{atlases[i].Sprites[j] : j \in 1..Len(atlases[i].Sprites)} :
         i \in 1..Len(tasks)}

\* This step is a call of Pack (line 160).
PackCalled == packCalls' = packCalls + 1

C18_DispatchedStep ==
  /\ PackCalled => SpriteAt(idx) \notin DispatchedSprites
  /\ \A i \in 1..Len(tasks) : atlases'[i] = atlases[i]
  /\ \A s \in DispatchedSprites : place'[s.Asset] = place[s.Asset]

\* C18: once a sprite has been placed and its atlas dispatched to a write
\* task, that sprite is never passed to Pack again, its place is never
\* changed and the atlas's sprite list is never modified by later passes, so
\* no write task reads what the orchestrator is changing.
C18_DispatchedSpritesAreLeftAlone == [][C18_DispatchedStep]_vars

\* C18 witness: in the second pass a sprite has been passed to Pack while
\* the first atlas, which holds a sprite, is with its write task.
C18_Witness ==
  /\ pc = "packing" /\ passNo = 2 /\ idx = 2
  /\ Len(tasks) = 1
  /\ Len(atlases[1].Sprites) > 0

\* ---------------------------------------------------------------- C19
\* What the range loop has still to read is what the pass was given, and
\* incompleteSprites holds what Pack has had no room for so far.
C19_PassState ==
  pc = "packing" =>
    /\ Len(fedSprites) = sprites.len
    /\ \A k \in idx..sprites.len : SpriteAt(k) = fedSprites[k]
    /\ SubSeq(incBuf, 1, incLen) = deferredSprites

\* The next pass is given the sprites the pass before had no room for.
C19_NextPassStep ==
  (pc = "loop" /\ pc' = "packing" /\ passNo > 0) =>
    fedSprites' = deferredSprites

\* C19: the sprite list fed to pass k+1 is exactly the subsequence of pass
\* k's list for which Pack returned OutOfRoom, in the same order: although
\* from the second pass on sprites and incompleteSprites share one backing
\* array that is truncated and appended to while it is iterated, no sprite
\* is overwritten before it is read, lost or duplicated.
C19_NextListIsTheDeferredSubsequence ==
  [](C19_PassState) /\ [][C19_NextPassStep]_vars

\* C19 witness: in the second pass, which ranges over the array it appends
\* to, the first sprite was placed and the second was deferred into the slot
\* the first was read from.
C19_Witness ==
  /\ pc = "packing" /\ passNo = 2
  /\ sprites.buf = "inc" /\ sprites.len = 2
  /\ idx = 3 /\ compLen = 1 /\ incLen = 1

\* ---------------------------------------------------------------- C20
\* Pack answers InputTooLarge for s whatever the packer holds: the answer
\* depends on the sprite's size and the canvas only.
TooLarge(s) ==
  \A fr \in {<<>>, NewBinPacker(params.Width, params.Height)} :
    BinOutcome(fr, s, params.Width, params.Height) = ErrInputTooLarge

\* The list readAssetStream returned holds a too-large sprite.
InputHasTooLarge == \E k \in 1..Len(spritesArr) : TooLarge(spritesArr[k])

\* C20: with the bin packer, a run whose input contains a too-large sprite
\* returns InputTooLarge during the first pack pass, before any atlas is
\* created: no write task is dispatched and nothing is written to the
\* output, whatever MaxAtlases is.
C20_TooLargeInputWritesNothing ==
  InputHasTooLarge =>
    /\ pc \in {"loop", "packing", "done"}
    /\ passNo <= 1
    /\ pc = "done" => result = ErrInputTooLarge
    /\ result \in {Running, ErrInputTooLarge}
    /\ atlases = <<>> /\ totalNumberOfAtlases = 0
    /\ tasks = <<>> /\ descTask.st = "none" /\ wg = 0
    /\ files = {} /\ descCalls = <<>>

\* C20 witness: Run has returned InputTooLarge for a list of two sprites,
\* with an atlas limit set, after Pack had been called for both.
C20_Witness ==
  /\ pc = "done" /\ result = ErrInputTooLarge
  /\ InputHasTooLarge
  /\ Len(spritesArr) = 2 /\ packCalls = 2
  /\ params.MaxAtlases > 0

====
